---- MODULE Spec2Model ----
(***************************************************************************)
(* Model of InvoluteGear (src/involute_gear.py).                           *)
(*                                                                         *)
(* Python floats are modelled as fixed-point integers:                     *)
(*   lengths  in units of 1/LenScale,                                      *)
(*   angles and sin/cos values in units of 1/AngScale (radians).           *)
(* Every product is rescaled with round-to-nearest division (RDiv), so a   *)
(* value of the model is within a few units of the float the code holds.   *)
(* Points are cartesian pairs <<x, y>>, as in the code; polar/cartesian    *)
(* conversions and rotations are computed, never taken as the identity.    *)
(***************************************************************************)
EXTENDS Integers, Sequences, FiniteSets, TLC

\* ------------------------------------------------------------------------
\* Fixed-point arithmetic
\* ------------------------------------------------------------------------
LenScale == 1000
AngScale == 10000
\* math.pi, in angle units
Pi == 31416

\* Python's None, for a value that is otherwise a record or a sequence; an
\* angle that is set is held as the one-element sequence <<v>>
None == <<>>
Some(v) == <<v>>
Get(a) == a[1]
\* no method called yet, no exception raised
NoCall == "None"
NoError == "None"

Abs(a) == IF a < 0 THEN -a ELSE a
Min(a, b) == IF a <= b THEN a ELSE b

\* a / b rounded to the nearest integer (b # 0)
RDiv(a, b) == IF b > 0 THEN (2 * a + b) \div (2 * b)
                       ELSE (2 * (-a) + (-b)) \div (2 * (-b))

\* ceil(a / b) for b # 0
CeilDiv(a, b) == IF b > 0 THEN -((-a) \div b) ELSE -(a \div (-b))

\* product of a value and a sin/cos value (or of a length and an angle)
MulA(a, t) == RDiv(a * t, AngScale)

RECURSIVE SqrtSearch(_, _, _)
SqrtSearch(n, lo, hi) ==
    IF lo >= hi THEN lo
    ELSE LET mid == (lo + hi + 1) \div 2
         IN IF mid * mid <= n THEN SqrtSearch(n, mid, hi)
                              ELSE SqrtSearch(n, lo, mid - 1)

\* math.sqrt of a non-negative integer, rounded to the nearest integer
Sqrt(n) == LET s == SqrtSearch(n, 0, 46340)
           IN IF n - s * s > s THEN s + 1 ELSE s

\* sin and cos on [0, pi/2] by their Taylor series
SinQ(x) ==
    LET x2 == RDiv(x * x, AngScale)
        t3 == RDiv(x * x2, 6 * AngScale)
        t5 == RDiv(t3 * x2, 20 * AngScale)
        t7 == RDiv(t5 * x2, 42 * AngScale)
        t9 == RDiv(t7 * x2, 72 * AngScale)
        t11 == RDiv(t9 * x2, 110 * AngScale)
    IN x - t3 + t5 - t7 + t9 - t11

CosQ(x) ==
    LET x2 == RDiv(x * x, AngScale)
        t2 == RDiv(x * x, 2 * AngScale)
        t4 == RDiv(t2 * x2, 12 * AngScale)
        t6 == RDiv(t4 * x2, 30 * AngScale)
        t8 == RDiv(t6 * x2, 56 * AngScale)
        t10 == RDiv(t8 * x2, 90 * AngScale)
    IN AngScale - t2 + t4 - t6 + t8 - t10

\* math.sin, math.cos of any angle
Sin(a) ==
    LET m == a % (2 * Pi)
    IN IF m <= Pi \div 2 THEN SinQ(m)
       ELSE IF m <= Pi THEN SinQ(Pi - m)
       ELSE IF m <= Pi + Pi \div 2 THEN -SinQ(m - Pi)
       ELSE -SinQ(2 * Pi - m)

Cos(a) ==
    LET m == a % (2 * Pi)
    IN IF m <= Pi \div 2 THEN CosQ(m)
       ELSE IF m <= Pi THEN -CosQ(Pi - m)
       ELSE IF m <= Pi + Pi \div 2 THEN -CosQ(m - Pi)
       ELSE CosQ(2 * Pi - m)

\* atan of a small ratio u (|u| <= tan(pi/8)), by its Taylor series
AtanU(u) ==
    LET u2 == RDiv(u * u, AngScale)
        p3 == RDiv(u * u2, AngScale)
        p5 == RDiv(p3 * u2, AngScale)
        p7 == RDiv(p5 * u2, AngScale)
        p9 == RDiv(p7 * u2, AngScale)
        p11 == RDiv(p9 * u2, AngScale)
    IN u - RDiv(p3, 3) + RDiv(p5, 5) - RDiv(p7, 7) + RDiv(p9, 9) - RDiv(p11, 11)

\* atan of a ratio q in [0, 1]
Atan01(q) ==
    IF q <= 4142 THEN AtanU(q)
    ELSE RDiv(Pi, 4) + AtanU(RDiv((q - AngScale) * AngScale, q + AngScale))

\* atan(y / x) for x, y >= 0, not both 0
AtanPos(y, x) ==
    IF y <= x THEN Atan01(RDiv(y * AngScale, x))
    ELSE RDiv(Pi, 2) - Atan01(RDiv(x * AngScale, y))

\* math.atan2, in (-pi, pi]
Atan2(y, x) ==
    IF x = 0 /\ y = 0 THEN 0
    ELSE IF x >= 0 /\ y >= 0 THEN AtanPos(y, x)
    ELSE IF x < 0 /\ y >= 0 THEN Pi - AtanPos(y, -x)
    ELSE IF x < 0 /\ y < 0 THEN AtanPos(-y, -x) - Pi
    ELSE -AtanPos(-y, x)

\* math.radians
radians(deg) == RDiv(deg * Pi, 180)

\* ------------------------------------------------------------------------
\* mathutils: coordinate conversion and rigid transforms
\* ------------------------------------------------------------------------
polar_to_cart(r, ang) == <<MulA(r, Cos(ang)), MulA(r, Sin(ang))>>

cart_to_polar(p) == <<Sqrt(p[1] * p[1] + p[2] * p[2]), Atan2(p[2], p[1])>>

\* np.dot(rotation_matrix(theta), p) for one point p
Rotate(theta, p) ==
    LET c == Cos(theta)
        s == Sin(theta)
    IN <<RDiv(c * p[1] - s * p[2], AngScale), RDiv(s * p[1] + c * p[2], AngScale)>>

\* np.dot(flip_matrix(h, v), p) for one point p
Flip(h, v, p) == <<IF h THEN -p[1] ELSE p[1], IF v THEN -p[2] ELSE p[2]>>

\* ------------------------------------------------------------------------
\* Constructor arguments explored
\* ------------------------------------------------------------------------
MaxTeeth == 8
MaxSteps == 12
MaxCalls == 2

ModuleValues == {-LenScale, LenScale, (3 * LenScale) \div 2}
TeethValues == {-3, 0, 2, 3, MaxTeeth \div 2, MaxTeeth}
PressureAngleValues == {20, 45, 75}
FilletValues == {0, (3 * LenScale) \div 10, 5 * LenScale}
BacklashValues == {0, LenScale \div 10, 7 * LenScale}
MaxStepsValues == {0, 1, 2, MaxSteps \div 2, MaxSteps}
ArcStepValues == {LenScale \div 5}

Args == [module : ModuleValues, teeth : TeethValues,
         pressure_angle_deg : PressureAngleValues, fillet : FilletValues,
         backlash : BacklashValues, max_steps : MaxStepsValues,
         arc_step_size : ArcStepValues, ring : BOOLEAN]

\* A malformed configuration is explored with the other arguments at one value
\* each; a well-formed one with every combination.
WellFormed(a) == a.module > 0 /\ a.teeth > 0
Explored(a) ==
    \/ WellFormed(a)
    \/ /\ a.pressure_angle_deg = 20
       /\ a.backlash = 0
       /\ a.max_steps = MaxSteps
       /\ a.fillet \in {0, (3 * LenScale) \div 10}

VARIABLES args, self, theta_pitch_intersect, theta_full_tooth,
          pc, call, err, ncalls,
          i, points, reached_limit,
          points_tooth, k, points_root, points_module,
          n, points_teeth, points_gear, point_list, ret

gearState == <<args, self>>
angles == <<theta_pitch_intersect, theta_full_tooth>>
halfLocals == <<i, points, reached_limit>>
rootLocals == <<k, points_root>>
gearLocals == <<n, points_teeth>>
svgLocals == <<points_gear, point_list>>
vars == <<args, self, theta_pitch_intersect, theta_full_tooth, pc, call, err,
          ncalls, i, points, reached_limit, points_tooth, k, points_root,
          points_module, n, points_teeth, points_gear, point_list, ret>>

\* ------------------------------------------------------------------------
\* InvoluteGear.__init__
\* ------------------------------------------------------------------------
\* 1.157, the standard dedendum factor, in length units
DedendumFactor == 1157

\* the swap for ring gears forgotten
AddendumNoSwap(module, ring) == module

Addendum(module, ring) ==
    IF ring THEN RDiv(DedendumFactor * module, LenScale) ELSE module

Dedendum(module, ring) ==
    IF ring THEN module ELSE RDiv(DedendumFactor * module, LenScale)

FilletRadius(fillet, ring) == IF ~ring THEN fillet ELSE 0

PitchRadius(module, teeth) == RDiv(module * teeth, 2)

\* the constructor raises ZeroDivisionError at pi * 2 / teeth or at
\* backlash / 2 / pitch_radius
CtorDividesByZero(a) == a.teeth = 0 \/ PitchRadius(a.module, a.teeth) = 0

NewGear(a) ==
    LET pressure_angle == radians(a.pressure_angle_deg)
        pitch_radius == PitchRadius(a.module, a.teeth)
        theta_tooth_and_gap == RDiv(Pi * 2, a.teeth)
        angular_backlash == RDiv(a.backlash * AngScale, 2 * pitch_radius)
    IN [module |-> a.module,
        teeth |-> a.teeth,
        pressure_angle |-> pressure_angle,
        addendum |-> Addendum(a.module, a.ring),
        dedendum |-> Dedendum(a.module, a.ring),
        pitch_radius |-> pitch_radius,
        base_radius |-> MulA(pitch_radius, Cos(pressure_angle)),
        outer_radius |-> pitch_radius + Addendum(a.module, a.ring),
        root_radius |-> pitch_radius - Dedendum(a.module, a.ring),
        fillet_radius |-> FilletRadius(a.fillet, a.ring),
        theta_tooth_and_gap |-> theta_tooth_and_gap,
        theta_tooth |-> RDiv(theta_tooth_and_gap, 2)
                          + (IF ~a.ring THEN -angular_backlash ELSE angular_backlash),
        max_steps |-> a.max_steps,
        arc_step_size |-> a.arc_step_size]

Init ==
    /\ args = None
    /\ self = None
    /\ theta_pitch_intersect = None
    /\ theta_full_tooth = None
    /\ pc = "new"
    /\ call = NoCall
    /\ err = NoError
    /\ ncalls = 0
    /\ i = 0
    /\ points = <<>>
    /\ reached_limit = FALSE
    /\ points_tooth = <<>>
    /\ k = 0
    /\ points_root = <<>>
    /\ points_module = <<>>
    /\ n = 0
    /\ points_teeth = <<>>
    /\ points_gear = <<>>
    /\ point_list = <<>>
    /\ ret = None

Construct ==
    /\ pc = "new"
    /\ \E a \in Args :
        /\ Explored(a)
        /\ args' = a
        /\ IF CtorDividesByZero(a)
           THEN /\ self' = None
                /\ err' = "ZeroDivisionError"
                /\ pc' = "failed"
           ELSE /\ self' = NewGear(a)
                /\ err' = NoError
                /\ pc' = "idle"
    /\ UNCHANGED <<angles, call, ncalls, halfLocals, points_tooth, rootLocals,
                   points_module, gearLocals, svgLocals, ret>>

\* ------------------------------------------------------------------------
\* Sequences of points
\* ------------------------------------------------------------------------
Reverse(s) == [j \in 1..Len(s) |-> s[Len(s) + 1 - j]]

\* np.dot(rotation_matrix(theta), pts)
RotateAll(theta, pts) == [j \in 1..Len(pts) |-> Rotate(theta, pts[j])]

\* ------------------------------------------------------------------------
\* Calls of the public methods
\* ------------------------------------------------------------------------
Methods == {"generate_half_tooth", "generate_root", "generate_tooth",
            "generate_tooth_and_gap", "generate_gear", "get_point_list",
            "get_svg"}

\* generate_tooth_and_gap calling generate_root before generate_tooth
EntryRootFirst(m) ==
    IF m \in {"generate_root", "generate_tooth_and_gap"} THEN "root" ELSE "half_tooth"

\* the first stage a method runs: every method but generate_root starts,
\* directly or through the methods it calls, with generate_half_tooth
Entry(m) == IF m = "generate_root" THEN "root" ELSE "half_tooth"

\* the method starts: its locals are fresh
Call ==
    /\ pc \in {"idle", "returned", "raised"}
    /\ ncalls < MaxCalls
    /\ \E m \in Methods :
        /\ call' = m
        /\ pc' = Entry(m)
    /\ ncalls' = ncalls + 1
    /\ err' = NoError
    /\ ret' = None
    /\ i' = 0
    /\ points' = <<>>
    /\ reached_limit' = FALSE
    /\ points_tooth' = <<>>
    /\ k' = 0
    /\ points_root' = <<>>
    /\ points_module' = <<>>
    /\ n' = 0
    /\ points_teeth' = <<>>
    /\ points_gear' = <<>>
    /\ point_list' = <<>>
    /\ UNCHANGED <<gearState, angles>>

\* an exception leaves every frame of the call
Raise(e) ==
    /\ err' = e
    /\ ret' = None
    /\ pc' = "raised"

\* the outermost method returns v
Return(v) ==
    /\ ret' = v
    /\ err' = NoError
    /\ pc' = "returned"

\* ------------------------------------------------------------------------
\* InvoluteGear.generate_half_tooth
\* ------------------------------------------------------------------------
\* np.linspace(0, pi, max_steps)[j]
Phi(j, max_steps) == IF max_steps <= 1 THEN 0 ELSE RDiv(j * Pi, max_steps - 1)

\* the point of the involute of the base circle at parameter phi
InvolutePoint(base_radius, phi) ==
    <<MulA(base_radius, Cos(phi)) + MulA(MulA(phi, base_radius), Sin(phi)),
      MulA(base_radius, Sin(phi)) - MulA(MulA(phi, base_radius), Cos(phi))>>

\* the clipping forgotten
ClipNothing(g, p) == p

\* the point appended for the sample p
Clip(g, p) ==
    LET pol == cart_to_polar(p)
    IN IF pol[1] >= g.outer_radius THEN polar_to_cart(g.outer_radius, pol[2])
       ELSE IF pol[1] <= g.root_radius THEN polar_to_cart(g.root_radius, pol[2])
       ELSE p

\* the capture repeated on every sample with dist >= pitch_radius
CapturesAgain(tpi, dist, pitch_radius) == dist >= pitch_radius

\* the first sample with dist >= pitch_radius is the pitch intersection
Captures(tpi, dist, pitch_radius) == tpi = None /\ dist >= pitch_radius

FullTooth(tpi, theta_tooth) == tpi * 2 + theta_tooth

\* the walk stops at any sample after the capture
ReachesLimitNoAngle(tpi, theta, tft) == tpi # None

\* theta >= theta_full_tooth / 2
ReachesLimit(tpi, theta, tft) == tpi # None /\ 2 * theta >= Get(tft)

HalfToothBegin ==
    /\ pc = "half_tooth"
    /\ points' = <<>>
    /\ reached_limit' = FALSE
    /\ theta_pitch_intersect' = None
    /\ i' = 0
    /\ pc' = "half_tooth_loop"
    /\ UNCHANGED <<gearState, theta_full_tooth, call, err, ncalls, points_tooth,
                   rootLocals, points_module, gearLocals, svgLocals, ret>>

HalfToothStep ==
    /\ pc = "half_tooth_loop"
    /\ i < self.max_steps
    /\ LET p == InvolutePoint(self.base_radius, Phi(i, self.max_steps))
           pol == cart_to_polar(p)
       IN IF Captures(theta_pitch_intersect, pol[1], self.pitch_radius)
          THEN /\ theta_pitch_intersect' = Some(pol[2])
               /\ theta_full_tooth' = Some(FullTooth(pol[2], self.theta_tooth))
               /\ points' = Append(points, Clip(self, p))
               /\ i' = i + 1
               /\ UNCHANGED <<reached_limit, pc>>
          ELSE IF ReachesLimit(theta_pitch_intersect, pol[2], theta_full_tooth)
          THEN /\ reached_limit' = TRUE
               /\ pc' = "half_tooth_end"
               /\ UNCHANGED <<angles, points, i>>
          ELSE /\ points' = Append(points, Clip(self, p))
               /\ i' = i + 1
               /\ UNCHANGED <<angles, reached_limit, pc>>
    /\ UNCHANGED <<gearState, call, err, ncalls, points_tooth, rootLocals,
                   points_module, gearLocals, svgLocals, ret>>

\* the loop is over: raise, or return points
HalfToothEnd ==
    /\ \/ pc = "half_tooth_end"
       \/ pc = "half_tooth_loop" /\ i >= self.max_steps
    /\ IF ~reached_limit
       THEN Raise("Exception")
       ELSE IF call = "generate_half_tooth"
       THEN Return(points)
       ELSE /\ pc' = "tooth"
            /\ UNCHANGED <<err, ret>>
    /\ UNCHANGED <<gearState, angles, call, ncalls, halfLocals, points_tooth,
                   rootLocals, points_module, gearLocals, svgLocals>>

\* ------------------------------------------------------------------------
\* InvoluteGear.generate_tooth
\* ------------------------------------------------------------------------
\* the mirrored half left in the order of the first half
SecondHalfNotReversed(tft, first) ==
    [j \in 1..Len(first) |-> Rotate(tft, Flip(FALSE, TRUE, first[j]))]

\* the first half mirrored about the tooth's centre line
SecondHalf(tft, first) ==
    Reverse([j \in 1..Len(first) |-> Rotate(tft, Flip(FALSE, TRUE, first[j]))])

ToothMirror ==
    /\ pc = "tooth"
    /\ points_tooth' = points \o SecondHalf(Get(theta_full_tooth), points)
    /\ IF call = "generate_tooth"
       THEN Return(points_tooth')
       ELSE /\ pc' = "root"
            /\ UNCHANGED <<err, ret>>
    /\ UNCHANGED <<gearState, angles, call, ncalls, halfLocals, rootLocals,
                   points_module, gearLocals, svgLocals>>

\* ------------------------------------------------------------------------
\* InvoluteGear.generate_root
\* ------------------------------------------------------------------------
RootArcLength(g, tft) == MulA(g.theta_tooth_and_gap - tft, g.root_radius)

\* arc_step_size / root_radius, the angular step (root_radius # 0)
RootStepAngle(g) == RDiv(g.arc_step_size * AngScale, g.root_radius)

\* the last sample of the range dropped
ArangeLenShort(start, stop, step) ==
    LET c == CeilDiv(stop - start, step) - 1 IN IF c > 0 THEN c ELSE 0

\* len(np.arange(start, stop, step)), step # 0
ArangeLen(start, stop, step) ==
    LET c == CeilDiv(stop - start, step) IN IF c > 0 THEN c ELSE 0

\* np.arange(start, stop, step)[j]
ArangeAt(start, step, j) == start + j * step

ArcPosition(g, tft, theta) == MulA(theta - tft, g.root_radius)

InFillet(g, root_arc_length, arc_position) ==
    Min(root_arc_length - arc_position, arc_position) < g.fillet_radius

\* the clamp to the nearer end forgotten
CirclePosNoClamp(root_arc_length, arc_position) == arc_position

CirclePos(root_arc_length, arc_position) ==
    Min(arc_position, root_arc_length - arc_position)

\* the argument of sqrt in the fillet profile
FilletSqrtArg(fillet_radius, circle_pos) ==
    fillet_radius * fillet_radius
        - (fillet_radius - circle_pos) * (fillet_radius - circle_pos)

\* the radius of the root arc sample at theta (sqrt argument >= 0)
RootR(g, tft, theta) ==
    LET root_arc_length == RootArcLength(g, tft)
        arc_position == ArcPosition(g, tft, theta)
        circle_pos == CirclePos(root_arc_length, arc_position)
    IN IF InFillet(g, root_arc_length, arc_position)
       THEN g.root_radius
              + (g.fillet_radius - Sqrt(FilletSqrtArg(g.fillet_radius, circle_pos)))
       ELSE g.root_radius

\* math.sqrt raises ValueError on a negative argument
RootSqrtFails(g, tft, theta) ==
    LET root_arc_length == RootArcLength(g, tft)
        arc_position == ArcPosition(g, tft, theta)
    IN /\ InFillet(g, root_arc_length, arc_position)
       /\ FilletSqrtArg(g.fillet_radius,
                        CirclePos(root_arc_length, arc_position)) < 0

RootBegin ==
    /\ pc = "root"
    /\ IF theta_full_tooth = None
       THEN Raise("TypeError")
       ELSE IF self.root_radius = 0
       THEN Raise("ZeroDivisionError")
       ELSE IF RootStepAngle(self) = 0
       THEN Raise("ValueError")
       ELSE /\ pc' = "root_loop"
            /\ UNCHANGED <<err, ret>>
    /\ k' = 0
    /\ points_root' = <<>>
    /\ UNCHANGED <<gearState, angles, call, ncalls, halfLocals, points_tooth,
                   points_module, gearLocals, svgLocals>>

RootStep ==
    /\ pc = "root_loop"
    /\ k < ArangeLen(Get(theta_full_tooth), self.theta_tooth_and_gap, RootStepAngle(self))
    /\ LET theta == ArangeAt(Get(theta_full_tooth), RootStepAngle(self), k)
       IN IF RootSqrtFails(self, Get(theta_full_tooth), theta)
          THEN /\ Raise("ValueError")
               /\ UNCHANGED rootLocals
          ELSE /\ points_root' = Append(points_root,
                       polar_to_cart(RootR(self, Get(theta_full_tooth), theta), theta))
               /\ k' = k + 1
               /\ UNCHANGED <<pc, err, ret>>
    /\ UNCHANGED <<gearState, angles, call, ncalls, halfLocals, points_tooth,
                   points_module, gearLocals, svgLocals>>

RootEnd ==
    /\ pc = "root_loop"
    /\ k >= ArangeLen(Get(theta_full_tooth), self.theta_tooth_and_gap, RootStepAngle(self))
    /\ IF call = "generate_root"
       THEN Return(points_root)
       ELSE /\ pc' = "tooth_and_gap"
            /\ UNCHANGED <<err, ret>>
    /\ UNCHANGED <<gearState, angles, call, ncalls, halfLocals, points_tooth,
                   rootLocals, points_module, gearLocals, svgLocals>>

\* ------------------------------------------------------------------------
\* InvoluteGear.generate_tooth_and_gap
\* ------------------------------------------------------------------------
\* np.concatenate((points_tooth, points_root), axis=1): an empty root arc is a
\* one-dimensional array, which numpy refuses to join to the 2 x m tooth
ToothAndGapConcat ==
    /\ pc = "tooth_and_gap"
    /\ IF points_root = <<>>
       THEN /\ Raise("ValueError")
            /\ UNCHANGED points_module
       ELSE /\ points_module' = points_tooth \o points_root
            /\ IF call = "generate_tooth_and_gap"
               THEN Return(points_module')
               ELSE /\ pc' = "gear_loop"
                    /\ UNCHANGED <<err, ret>>
    /\ UNCHANGED <<gearState, angles, call, ncalls, halfLocals, points_tooth,
                   rootLocals, gearLocals, svgLocals>>

\* ------------------------------------------------------------------------
\* InvoluteGear.generate_gear
\* ------------------------------------------------------------------------
\* the copies numbered from 1
ToothCopyFromOne(g, unit, m) == RotateAll(g.theta_tooth_and_gap * (m + 1), unit)

\* the copy of the unit for tooth number m
ToothCopy(g, unit, m) == RotateAll(g.theta_tooth_and_gap * m, unit)

\* the final rotation that centres the first tooth on the x axis
AlignGear(tft, pts) == RotateAll(RDiv(-tft, 2), pts)

GearCopy ==
    /\ pc = "gear_loop"
    /\ n < self.teeth
    /\ points_teeth' = points_teeth \o ToothCopy(self, points_module, n)
    /\ n' = n + 1
    /\ UNCHANGED <<gearState, angles, pc, call, err, ncalls, halfLocals,
                   points_tooth, rootLocals, points_module, svgLocals, ret>>

\* np.concatenate of no array raises ValueError
GearFinish ==
    /\ pc = "gear_loop"
    /\ n >= self.teeth
    /\ IF n = 0
       THEN /\ Raise("ValueError")
            /\ UNCHANGED points_gear
       ELSE /\ points_gear' = AlignGear(Get(theta_full_tooth), points_teeth)
            /\ IF call = "generate_gear"
               THEN Return(points_gear')
               ELSE /\ pc' = "point_list"
                    /\ UNCHANGED <<err, ret>>
    /\ UNCHANGED <<gearState, angles, call, ncalls, halfLocals, points_tooth,
                   rootLocals, points_module, gearLocals, point_list>>

\* ------------------------------------------------------------------------
\* InvoluteGear.get_point_list
\* ------------------------------------------------------------------------
\* the 2 x N array [[x1, ..., xn], [y1, ..., yn]] of a sequence of points,
\* the form in which every generate_* method holds and returns its points
ArrayOf(pts) ==
    <<[j \in 1..Len(pts) |-> pts[j][1]], [j \in 1..Len(pts) |-> pts[j][2]]>>

\* np.transpose of a 2 x N array: the N rows [x, y]
Transpose(a) == [j \in 1..Len(a[1]) |-> <<a[1][j], a[2][j]>>]

GetPointList ==
    /\ pc = "point_list"
    /\ point_list' = Transpose(ArrayOf(points_gear))
    /\ IF call = "get_point_list"
       THEN Return(point_list')
       ELSE /\ pc' = "svg"
            /\ UNCHANGED <<err, ret>>
    /\ UNCHANGED <<gearState, angles, call, ncalls, halfLocals, points_tooth,
                   rootLocals, points_module, gearLocals, points_gear>>

\* ------------------------------------------------------------------------
\* InvoluteGear.get_svg
\* ------------------------------------------------------------------------
RECURSIVE MinOver(_, _, _)
\* np.min(points, axis=0)[c], over the rows from j on (a non-empty list)
MinOver(rows, c, j) ==
    IF j >= Len(rows) THEN rows[j][c]
    ELSE Min(rows[j][c], MinOver(rows, c, j + 1))

RECURSIVE MaxOver(_, _, _)
MaxOver(rows, c, j) ==
    IF j >= Len(rows) THEN rows[j][c]
    ELSE LET m == MaxOver(rows, c, j + 1)
         IN IF rows[j][c] >= m THEN rows[j][c] ELSE m

\* np.ptp(points, axis=0)[c]: the range of column c
Ptp(rows, c) == MaxOver(rows, c, 1) - MinOver(rows, c, 1)

SvgUnits == {"mm", "None"}

\* the svgwrite.Drawing built: its size, its viewBox and its one closed path
Drawing(rows, unit) ==
    LET width == Ptp(rows, 1)
        height == Ptp(rows, 2)
        left == MinOver(rows, 1, 1)
        top == MinOver(rows, 2, 1)
    IN [size |-> <<width, height>>,
        unit |-> unit,
        viewBox |-> <<left, top, width, height>>,
        path |-> [start |-> "M", points |-> rows, close |-> "Z"]]

GetSvg ==
    /\ pc = "svg"
    /\ \E unit \in SvgUnits : Return(Drawing(point_list, unit))
    /\ UNCHANGED <<gearState, angles, call, ncalls, halfLocals, points_tooth,
                   rootLocals, points_module, gearLocals, svgLocals>>

\* ------------------------------------------------------------------------
Next ==
    \/ Construct
    \/ Call
    \/ HalfToothBegin
    \/ HalfToothStep
    \/ HalfToothEnd
    \/ ToothMirror
    \/ RootBegin
    \/ RootStep
    \/ RootEnd
    \/ ToothAndGapConcat
    \/ GearCopy
    \/ GearFinish
    \/ GetPointList
    \/ GetSvg

Spec == Init /\ [][Next]_vars

\* ------------------------------------------------------------------------
\* Measuring points: radius, polar angle, and the tolerance of one comparison
\* ------------------------------------------------------------------------
\* the rounding of a few fixed-point operations, in length units
Tol == LenScale \div 250

Radius(p) == cart_to_polar(p)[1]
Angle(p) == cart_to_polar(p)[2]

\* the signed difference a - b of two angles, in [-pi, pi)
AngleDiff(a, b) == ((a - b + Pi) % (2 * Pi)) - Pi

\* the angles a and b, seen at radius r, are less than Tol apart along the arc
ArcNear(a, b, r) == Abs(AngleDiff(a, b)) * r <= Tol * AngScale

\* the angle does not go back from a to b, seen at radius r
NotDescending(a, b, r) == AngleDiff(b, a) * r >= -(Tol * AngScale)

Constructed == pc \notin {"new", "failed"}

\* sample j of the walk of the gear g, as cart_to_polar returns it
SamplePolar(g, j) == cart_to_polar(InvolutePoint(g.base_radius, Phi(j, g.max_steps)))

\* the half-tooth walk of this call has ended with a return
HalfToothReturned ==
    /\ call \in Methods \ {"generate_root"}
    /\ pc \in {"tooth", "root", "root_loop", "tooth_and_gap", "gear_loop",
              "point_list", "svg", "returned"}

\* ------------------------------------------------------------------------
\* C1: generate_half_tooth never returns a truncated profile. Whenever the
\* walk has returned its points, the stop condition was hit: the pitch
\* intersection was captured, and the sample at which the walk stopped, which
\* is one of the max_steps samples, has theta >= theta_full_tooth / 2; a walk
\* that ends without it raises and returns no point sequence.
\* ------------------------------------------------------------------------
C1_NoTruncatedProfile ==
    /\ HalfToothReturned =>
          /\ reached_limit
          /\ theta_pitch_intersect # None
          /\ i < self.max_steps
          /\ 2 * SamplePolar(self, i)[2] >= Get(theta_full_tooth)
          /\ Len(points) = i
    /\ (pc = "half_tooth_end") => reached_limit
    /\ (pc = "raised" /\ err = "Exception") => (~reached_limit /\ ret = None)

C1_Witness ==
    /\ pc = "returned"
    /\ call = "generate_half_tooth"
    /\ Len(ret) >= 3
    /\ WellFormed(args)

\* ------------------------------------------------------------------------
\* C4: a malformed configuration (teeth <= 0 or module < 0) is rejected by the
\* constructor with the dimension error.
\* ------------------------------------------------------------------------
C4_MalformedRejected ==
    (pc # "new" /\ (args.teeth <= 0 \/ args.module < 0)) =>
        (pc = "failed" /\ err = "DimensionException")

\* ------------------------------------------------------------------------
\* C5: a ring gear has fillet_radius 0 whatever fillet was requested, and its
\* addendum and dedendum are the dedendum and addendum of the external gear
\* built from the same other arguments; an external gear keeps the fillet.
\* ------------------------------------------------------------------------
ExternalTwin == NewGear([args EXCEPT !.ring = FALSE])

C5_RingGear ==
    Constructed =>
        /\ args.ring =>
              /\ self.fillet_radius = 0
              /\ self.addendum = ExternalTwin.dedendum
              /\ self.dedendum = ExternalTwin.addendum
              /\ self.addendum = RDiv(DedendumFactor * args.module, LenScale)
        /\ ~args.ring => self.fillet_radius = args.fillet

C5_Witness ==
    /\ Constructed
    /\ args.ring
    /\ args.fillet > 0
    /\ self.addendum # self.dedendum

\* ------------------------------------------------------------------------
\* C6: clipping. On a well-formed gear every point the walk has appended lies
\* between the root and the outer circle; a sample with dist >= outer_radius
\* is appended at (outer_radius, theta), one with dist <= root_radius at
\* (root_radius, theta), any other sample unchanged. Point j + 1 of points is
\* the point appended for sample j.
\* ------------------------------------------------------------------------
ClippedTo(e, radius, theta) ==
    /\ Abs(Radius(e) - radius) <= Tol
    /\ ArcNear(Angle(e), theta, radius)

C6_Clipping ==
    (Constructed /\ WellFormed(args)) =>
        \A j \in 1..Len(points) :
            LET raw == InvolutePoint(self.base_radius, Phi(j - 1, self.max_steps))
                pol == SamplePolar(self, j - 1)
                e == points[j]
            IN /\ Radius(e) >= self.root_radius - Tol
               /\ Radius(e) <= self.outer_radius + Tol
               /\ pol[1] >= self.outer_radius =>
                      ClippedTo(e, self.outer_radius, pol[2])
               /\ (pol[1] < self.outer_radius /\ pol[1] <= self.root_radius) =>
                      ClippedTo(e, self.root_radius, pol[2])
               /\ (pol[1] < self.outer_radius /\ pol[1] > self.root_radius) =>
                      e = raw

\* a returned half tooth with a sample beyond the outer circle and a sample
\* inside the root circle
C6_Witness ==
    /\ Constructed
    /\ WellFormed(args)
    /\ pc = "returned"
    /\ call = "generate_half_tooth"
    /\ \E j \in 1..Len(points) : SamplePolar(self, j - 1)[1] > self.outer_radius + Tol
    /\ \E j \in 1..Len(points) : SamplePolar(self, j - 1)[1] < self.root_radius - Tol

\* ------------------------------------------------------------------------
\* C7: the pitch intersection is captured at most once per call. Every step
\* of generate_half_tooth: the call starts by resetting
\* theta_pitch_intersect; the capture happens on the first sample with
\* dist >= pitch_radius and takes that sample's theta; once set,
\* theta_pitch_intersect is not changed before the next call resets it; and
\* whenever it is set, theta_full_tooth = 2 * theta_pitch_intersect +
\* theta_tooth.
\* ------------------------------------------------------------------------
C7_Step ==
    /\ (pc = "half_tooth" /\ pc' = "half_tooth_loop") =>
           theta_pitch_intersect' = None
    /\ (pc # "half_tooth" /\ theta_pitch_intersect # None) =>
           theta_pitch_intersect' = theta_pitch_intersect
    /\ (theta_pitch_intersect = None /\ theta_pitch_intersect' # None) =>
           /\ pc = "half_tooth_loop"
           /\ SamplePolar(self, i)[1] >= self.pitch_radius
           /\ \A j \in 0..(i - 1) : SamplePolar(self, j)[1] < self.pitch_radius
           /\ theta_pitch_intersect' = Some(SamplePolar(self, i)[2])
    /\ (pc = "half_tooth_loop" /\ i' = i + 1 /\ theta_pitch_intersect = None
          /\ SamplePolar(self, i)[1] >= self.pitch_radius) =>
           theta_pitch_intersect' # None
    /\ theta_pitch_intersect' # None =>
           theta_full_tooth' =
               Some(2 * Get(theta_pitch_intersect') + self'.theta_tooth)

C7_CaptureOnce == [][C7_Step]_vars

\* in a second call on the same gear, a sample after the capture that also has
\* dist >= pitch_radius has been walked and has left the capture alone
C7_Witness ==
    /\ pc = "half_tooth_loop"
    /\ ncalls = 2
    /\ theta_pitch_intersect # None
    /\ \E j \in 0..(i - 1) :
          /\ SamplePolar(self, j)[1] >= self.pitch_radius
          /\ SamplePolar(self, j)[2] > Get(theta_pitch_intersect)

\* ------------------------------------------------------------------------
\* C8: generate_tooth returns the m half-tooth points followed by their m
\* mirror images in reversed order: point j and point 2m + 1 - j have the
\* same radius and polar angles that sum to theta_full_tooth, so the two end
\* points are theta_full_tooth apart.
\*   As claimed: the angle is ascending over the whole tooth whenever it is
\* ascending over the half tooth (C8_AscendingAsClaimed, stated for the
\* well-formed gears only).
\*   As the code behaves: that holds when in addition theta_tooth >= 0
\* (C8_ToothMirror); with a backlash above half the circular pitch
\* theta_tooth is negative, the half tooth ends beyond theta_full_tooth / 2
\* and the mirrored half starts below it.
\* ------------------------------------------------------------------------
ToothBuilt ==
    /\ call \in Methods \ {"generate_half_tooth", "generate_root"}
    /\ pc \in {"root", "root_loop", "tooth_and_gap", "gear_loop", "point_list",
              "svg", "returned"}

ToothSymmetric ==
    LET m == Len(points)
        tft == Get(theta_full_tooth)
    IN /\ Len(points_tooth) = 2 * m
       /\ \A j \in 1..m :
             LET a == points_tooth[j]
                 b == points_tooth[2 * m + 1 - j]
             IN /\ a = points[j]
                /\ Abs(Radius(a) - Radius(b)) <= Tol
                /\ ArcNear(Angle(a) + Angle(b), tft, Radius(a))
       /\ ArcNear(Angle(points_tooth[2 * m]) - Angle(points_tooth[1]), tft,
                  Radius(points_tooth[1]))

Ascending(pts) ==
    \A j \in 1..(Len(pts) - 1) :
        NotDescending(Angle(pts[j]), Angle(pts[j + 1]),
                      Min(Radius(pts[j]), Radius(pts[j + 1])))

C8_AscendingAsClaimed ==
    (ToothBuilt /\ WellFormed(args)) =>
        /\ ToothSymmetric
        /\ Ascending(points) => Ascending(points_tooth)

C8_ToothMirror ==
    ToothBuilt =>
        /\ ToothSymmetric
        /\ (Ascending(points) /\ self.theta_tooth >= 0) => Ascending(points_tooth)

C8_Witness ==
    /\ pc = "returned"
    /\ call = "generate_tooth"
    /\ Len(points) >= 3
    /\ self.theta_tooth >= 0
    /\ Ascending(points)
    /\ Angle(ret[Len(ret)]) > Angle(ret[1])

\* ------------------------------------------------------------------------
\* C9: the root arc is well defined for every fillet_radius >= 0. For every
\* sample of generate_root the argument of sqrt is non-negative, the radius r
\* satisfies root_radius <= r <= root_radius + fillet_radius, r = root_radius
\* for a sample that is not within fillet_radius of the nearer arc end (so for
\* every sample when fillet_radius = 0), each point appended has that radius
\* and the sample's angle, and generate_root raises no ValueError.
\* ------------------------------------------------------------------------
RootRunning ==
    \/ pc = "root_loop"
    \/ /\ call = "generate_root"
       /\ pc \in {"returned", "raised"}
       /\ theta_full_tooth # None
       /\ self.root_radius # 0
       /\ RootStepAngle(self) # 0

RootSamples ==
    ArangeLen(Get(theta_full_tooth), self.theta_tooth_and_gap, RootStepAngle(self))

C9_RootArc ==
    RootRunning =>
        LET tft == Get(theta_full_tooth)
            f == self.fillet_radius
            len == RootArcLength(self, tft)
        IN /\ \A j \in 0..(RootSamples - 1) :
                 LET theta == ArangeAt(tft, RootStepAngle(self), j)
                     pos == ArcPosition(self, tft, theta)
                     nearer == IF pos <= len - pos THEN pos ELSE len - pos
                     r == RootR(self, tft, theta)
                 IN /\ nearer < f => f * f - (f - nearer) * (f - nearer) >= 0
                    /\ ~RootSqrtFails(self, tft, theta)
                    /\ self.root_radius <= r
                    /\ r <= self.root_radius + f
                    /\ nearer >= f => r = self.root_radius
                    /\ f = 0 => r = self.root_radius
           /\ \A j \in 1..Len(points_root) :
                 LET theta == ArangeAt(tft, RootStepAngle(self), j - 1)
                     pos == ArcPosition(self, tft, theta)
                     nearer == IF pos <= len - pos THEN pos ELSE len - pos
                     e == points_root[j]
                 IN self.root_radius > 0 =>
                        /\ Radius(e) >= self.root_radius - Tol
                        /\ Radius(e) <= self.root_radius + f + Tol
                        /\ nearer >= f => ClippedTo(e, self.root_radius, theta)
           /\ err # "ValueError"

\* a well-formed gear whose fillet is larger than the whole root arc: the two
\* blend zones overlap on every sample, and samples of both ends are out
C9_Witness ==
    /\ pc = "returned"
    /\ call = "generate_root"
    /\ WellFormed(args)
    /\ self.root_radius > 0
    /\ self.fillet_radius > RootArcLength(self, Get(theta_full_tooth))
    /\ Len(ret) >= 3
    /\ \E j \in 1..Len(ret) : Radius(ret[j]) > self.root_radius + Tol

\* ------------------------------------------------------------------------
\* C10: the derived angles are unset from construction until a
\* generate_half_tooth call captures them; every stage that reads
\* theta_full_tooth in a generate_tooth, generate_tooth_and_gap or
\* generate_gear run does so after the half tooth of that run has completed;
\* generate_root on a gear whose theta_full_tooth is unset raises (TypeError)
\* and returns no arc.
\* ------------------------------------------------------------------------
ReadsFullTooth(p, c) ==
    \/ p \in {"tooth", "root_loop", "tooth_and_gap", "gear_loop"}
    \/ p = "root" /\ c # "generate_root"

C10_Step ==
    /\ pc = "new" => (theta_pitch_intersect' = None /\ theta_full_tooth' = None)
    /\ theta_full_tooth' = None => theta_pitch_intersect' = None
    /\ (theta_full_tooth = None /\ theta_full_tooth' # None) =>
           /\ pc = "half_tooth_loop"
           /\ theta_pitch_intersect' # None
    /\ ReadsFullTooth(pc', call') => theta_full_tooth' # None
    /\ (ReadsFullTooth(pc', call') /\ call' # "generate_root") =>
           /\ reached_limit'
           /\ theta_pitch_intersect' # None
    /\ (pc' = "root" /\ call' # "generate_root") => Len(points_tooth') > 0
    /\ (pc = "root" /\ theta_full_tooth = None) =>
           (pc' = "raised" /\ err' = "TypeError" /\ ret' = None) \/ UNCHANGED vars
    /\ (pc' = "returned" /\ call' = "generate_root") => theta_full_tooth' # None

C10_AnglesOrdering == [][C10_Step]_vars

C10_Witness ==
    /\ pc = "raised"
    /\ call = "generate_root"
    /\ err = "TypeError"
    /\ theta_full_tooth = None
    /\ WellFormed(args)

\* ------------------------------------------------------------------------
\* C3: generate_gear returns teeth * (points per tooth + points per root arc)
\* points: the copies of the tooth-and-gap unit for n = 0..teeth-1 in
\* increasing n, point j of copy n having the radius of unit point j and its
\* angle plus n * theta_tooth_and_gap - theta_full_tooth / 2.
\* ------------------------------------------------------------------------
\* generate_gear has returned, to the caller or to get_point_list; its result
\* is points_gear
GearReturned ==
    /\ call \in {"generate_gear", "get_point_list", "get_svg"}
    /\ pc \in {"point_list", "svg", "returned"}

Near(p, q) == Abs(p[1] - q[1]) <= Tol /\ Abs(p[2] - q[2]) <= Tol

C2_Closed == GearReturned => Near(points_gear[1], points_gear[Len(points_gear)])

C2_OpenByOneStep ==
    (GearReturned /\ self.root_radius > 0) =>
        LET first == points_gear[1]
            last == points_gear[Len(points_gear)]
            gap == AngleDiff(Angle(first), Angle(last))
            start == IF self.base_radius >= self.root_radius
                     THEN self.base_radius ELSE self.root_radius
        IN /\ Abs(Radius(first) - start) <= Tol
           /\ Radius(last) >= self.root_radius - Tol
           /\ Radius(last) <= self.root_radius + self.fillet_radius + Tol
           /\ gap * Radius(last) >= -(Tol * AngScale)
           /\ gap * Radius(last) <=
                  RootStepAngle(self) * Radius(last) + Tol * AngScale

\* a returned gear whose last point is on the root circle, well inside the
\* first point
C2_Witness ==
    /\ GearReturned
    /\ self.root_radius > 0
    /\ Radius(points_gear[1]) - Radius(points_gear[Len(points_gear)]) > 10 * Tol
    /\ AngleDiff(Angle(points_gear[1]), Angle(points_gear[Len(points_gear)])) > 0

====
